---- MODULE Spec2Model ----
(***************************************************************************)
(* Model of src/worker.js: a Cloudflare Worker that keeps one JSON array   *)
(* of "website" records under the key 'websites' of a KV namespace and     *)
(* serves static assets from the same namespace.                           *)
(*                                                                         *)
(* Strings are modelled as sequences of lexemes (a path "/api/websites" is *)
(* <<"/", "api", "/", "websites">>), so that startsWith, endsWith, slice   *)
(* and the JSON text written to the store are computed, not assumed.       *)
(* Every await of the code is a step boundary: between two steps of one    *)
(* request any step of another request may run.                            *)
(***************************************************************************)
EXTENDS Integers, Sequences, FiniteSets, TLC

\* Number of requests the platform runs concurrently.
MaxConc == 2

\* Longest collection the model lets the requests build.
MaxLen == 2

\* the longest collection of the specification of the add race
RaceLen == 3

Slots == 1..MaxConc

-----------------------------------------------------------------------------
(* JavaScript values *)

Undefined == [t |-> "undefined"]

Null == [t |-> "null"]

Num(n) == [t |-> "number", n |-> n]

Str(s) == [t |-> "string", s |-> s]

Obj(f) == [t |-> "object", f |-> f]

\* v.name: a TypeError on null and undefined, undefined for a missing property
PropThrows(v) == v.t \in {"null", "undefined"}

Prop(v, name) ==
    IF v.t = "object" /\ name \in DOMAIN v.f THEN v.f[name] ELSE Undefined

\* the condition of `x ? a : b` for the values a KV read returns
Truthy(v) == v.t = "string" /\ v.s # <<>>

-----------------------------------------------------------------------------
(* String helpers on lexeme sequences *)

StartsWith(s, p) == Len(s) >= Len(p) /\ SubSeq(s, 1, Len(p)) = p

EndsWith(s, p) == Len(s) >= Len(p) /\ SubSeq(s, Len(s) - Len(p) + 1, Len(s)) = p

Slice1(s) == SubSeq(s, 2, Len(s))

-----------------------------------------------------------------------------
(* The website records and identifiers the requests carry *)

IdA == Str(<<"a">>)

IdB == Str(<<"b">>)

WebsiteA == Obj([id |-> IdA, title |-> Str(<<"A">>)])

WebsiteB == Obj([id |-> IdB])

\* the values JSON text can denote as an array element
JsonElems == {Null, WebsiteA, WebsiteB}

-----------------------------------------------------------------------------
(* JSON.stringify and JSON.parse on arrays of the values above *)

\* JSON.stringify of one array element: undefined is written as null
StringifyElem(v) ==
    CASE v.t \in {"undefined", "null"} -> "null"
      [] v = WebsiteA -> "{\"id\":\"a\",\"title\":\"A\"}"
      [] v = WebsiteB -> "{\"id\":\"b\"}"

RECURSIVE JoinElems(_)
JoinElems(arr) ==
    IF arr = <<>> THEN <<>>
    ELSE IF Len(arr) = 1 THEN <<StringifyElem(arr[1])>>
    ELSE <<StringifyElem(arr[1]), ",">> \o JoinElems(Tail(arr))

\* variant: the array is handed to put as it is and coerced by toString
Stringify_coerced(arr) == JoinElems(arr)

\* JSON.stringify(array)
Stringify(arr) == <<"[">> \o JoinElems(arr) \o <<"]">>

ElemTexts == {StringifyElem(v) : v \in JsonElems}

ParseElem(tok) == CHOOSE v \in JsonElems : StringifyElem(v) = tok

\* the text is a JSON array: brackets around comma-separated element texts
IsArrayText(s) ==
    /\ Len(s) >= 2
    /\ s[1] = "["
    /\ s[Len(s)] = "]"
    /\ (Len(s) = 2 \/ Len(s) % 2 = 1)
    /\ \A i \in 2..(Len(s) - 1) :
          IF i % 2 = 0 THEN s[i] \in ElemTexts ELSE s[i] = ","

\* JSON.parse(text) for an array text
Parse(s) == [i \in 1..((Len(s) - 1) \div 2) |-> ParseElem(s[2 * i])]

-----------------------------------------------------------------------------
(* Paths, store keys and HTTP pieces *)

WebsitesKey == <<"websites">>

IndexPath == <<"/", "index", ".html">>

WorkerSuffix == <<"/", "worker", ".js">>

ApiPrefix == <<"/", "api", "/">>

AssetSuffixes == {<<".html">>, <<".css">>, <<".js">>, <<".png">>, <<".jpg">>, <<".svg">>}

Methods == {"OPTIONS", "POST", "GET"}

\* request paths: the root, assets that exist, are empty or are missing, the
\* two API paths and the collection's key as a path
Paths ==
    { <<"/">>,
      IndexPath,
      <<"/", "logo", ".svg">>,
      <<"/", "empty", ".js">>,
      <<"/", "style", ".css">>,
      <<"/", "api", "/", "websites">>,
      <<"/", "worker", ".js">>,
      <<"/", "websites">> }

\* the static assets the namespace holds besides the collection
Assets ==
    (<<"index", ".html">> :> <<"<html>">>) @@
    (<<"logo", ".svg">> :> <<"<svg>">>) @@
    (<<"empty", ".js">> :> <<>>)

corsHeaders ==
    ("Access-Control-Allow-Origin" :> "*") @@
    ("Access-Control-Allow-Methods" :> "POST, GET, OPTIONS") @@
    ("Access-Control-Allow-Headers" :> "Content-Type")

JsonHeaders == ("Content-Type" :> "application/json") @@ corsHeaders

PlainHeaders == ("Content-Type" :> "text/plain")

Response(status, body, headers) ==
    [status |-> status, body |-> body, headers |-> headers]

NoResponse == [status |-> 0]

\* JSON.stringify({ success: true })
SuccessBody == <<"{", "\"success\"", ":", "true", "}">>

\* JSON.stringify({ websites: arr })
WebsitesBody(arr) == <<"{", "\"websites\"", ":">> \o Stringify(arr) \o <<"}">>

getContentType(filePath) ==
    CASE EndsWith(filePath, <<".html">>) -> "text/html"
      [] EndsWith(filePath, <<".css">>) -> "text/css"
      [] EndsWith(filePath, <<".js">>) -> "application/javascript"
      [] EndsWith(filePath, <<".png">>) -> "image/png"
      [] EndsWith(filePath, <<".jpg">>) \/ EndsWith(filePath, <<".jpeg">>) -> "image/jpeg"
      [] EndsWith(filePath, <<".svg">>) -> "image/svg+xml"
      [] OTHER -> "application/octet-stream"

-----------------------------------------------------------------------------
(* Request bodies: what request.json() yields *)

\* request.json() rejects: the body is not JSON
NotJson == [t |-> "notjson"]

AddData == {Undefined, Null, WebsiteA, WebsiteB}

UpdateData == {WebsiteA, WebsiteB}

UpdateIndexes == {Undefined, Num(-1), Num(0), Num(1), Num(MaxLen)}

DeleteIds == {Undefined, IdA, IdB}

\* an object literal leaves out the properties whose value is undefined
Body(action, data, index, id) ==
    Obj([k \in ({"action"} \cup (IF data = Undefined THEN {} ELSE {"data"})
                           \cup (IF index = Undefined THEN {} ELSE {"index"})
                           \cup (IF id = Undefined THEN {} ELSE {"id"})) |->
            CASE k = "action" -> Str(<<action>>)
              [] k = "data" -> data
              [] k = "index" -> index
              [] k = "id" -> id])

Bodies ==
    {NotJson, Null, Num(5), Body("purge", Undefined, Undefined, Undefined),
     Body("get", Undefined, Undefined, Undefined)}
    \cup {Body("add", d, Undefined, Undefined) : d \in AddData}
    \cup {Body("update", d, i, Undefined) : d \in UpdateData, i \in UpdateIndexes}
    \cup {Body("delete", Undefined, Undefined, id) : id \in DeleteIds}

-----------------------------------------------------------------------------
(* State *)

VARIABLES
    kv,          \* the KV namespace: a function from the keys present to their text
    req,         \* per slot, the request running there and where it stands; its
                 \* fields reads, writes, fault and stale are history: the KV calls
                 \* made, the call that threw, and whether another request's put
                 \* reached the store after this one's read and before its own put
    lastWriter   \* history: the slot whose put was the last to reach the store, or 0

vars == <<kv, req, lastWriter>>

\* env.WEBSITES_KV.get(key): null for a key that is not there
KvGet(key) == IF key \in DOMAIN kv THEN Str(kv[key]) ELSE Null

\* the namespace after env.WEBSITES_KV.put(key, text)
KvPut(key, text) == [k \in DOMAIN kv \cup {key} |-> IF k = key THEN text ELSE kv[k]]

\* variant: the stored value is ignored and the collection starts empty
ParseOrEmpty_ignored(websites) == <<>>

\* websites ? JSON.parse(websites) : []
ParseOrEmpty(websites) == IF Truthy(websites) THEN Parse(websites.s) ELSE <<>>

\* JSON.parse throws on a text that is not JSON
ParseThrows(websites) == Truthy(websites) /\ ~IsArrayText(websites.s)

Idle ==
    [pc |-> "idle", method |-> "", path |-> <<>>, handler |-> "", key |-> <<>>,
     data |-> Undefined,
     websites |-> Undefined, resp |-> NoResponse,
     reads |-> 0, writes |-> 0, fault |-> "none", stale |-> FALSE]

Init ==
    /\ kv = Assets
    /\ req = [r \in Slots |-> Idle]
    /\ lastWriter = 0

\* the request q answers
Respond(q, resp) == [q EXCEPT !.pc = "done", !.resp = resp]

-----------------------------------------------------------------------------
(* fetch: the router, run up to the first await of the handler it picks *)

IsApiPath(path) == EndsWith(path, WorkerSuffix) \/ StartsWith(path, ApiPrefix)

HasAssetSuffix(path) == \E suffix \in AssetSuffixes : EndsWith(path, suffix)

\* variant: the asset suffixes are tested before the API paths
Route_assetFirst(method, path) ==
    IF method = "OPTIONS" THEN [handler |-> "preflight", path |-> path]
    ELSE IF HasAssetSuffix(path) THEN [handler |-> "static", path |-> path]
    ELSE IF method = "POST" /\ IsApiPath(path) THEN [handler |-> "api", path |-> path]
    ELSE [handler |-> "static", path |-> IndexPath]

\* variant: the preflight test comes last, after the asset suffixes
Route_preflightLast(method, path) ==
    IF method = "POST" /\ IsApiPath(path) THEN [handler |-> "api", path |-> path]
    ELSE IF HasAssetSuffix(path) THEN [handler |-> "static", path |-> path]
    ELSE IF method = "OPTIONS" THEN [handler |-> "preflight", path |-> path]
    ELSE [handler |-> "static", path |-> IndexPath]

\* variant: a path without asset suffix is served as it is, not as the index
Route_anyPath(method, path) ==
    IF method = "OPTIONS" THEN [handler |-> "preflight", path |-> path]
    ELSE IF method = "POST" /\ IsApiPath(path) THEN [handler |-> "api", path |-> path]
    ELSE [handler |-> "static", path |-> path]

\* the handler fetch picks, and the path it hands to serveStaticFile
Route(method, path) ==
    IF method = "OPTIONS" THEN [handler |-> "preflight", path |-> path]
    ELSE IF method = "POST" /\ IsApiPath(path) THEN [handler |-> "api", path |-> path]
    ELSE IF HasAssetSuffix(path) THEN [handler |-> "static", path |-> path]
    ELSE [handler |-> "static", path |-> IndexPath]

\* handleApiRequest up to `await request.json()`
handleApiRequestEntry(q) ==
    IF q.method # "POST"
    THEN Respond(q, Response(405, <<"Method not allowed">>, corsHeaders))
    ELSE [q EXCEPT !.pc = "json"]

\* serveStaticFile up to `await env.WEBSITES_KV.get(filePath)`
serveStaticFileEntry(q, path) ==
    LET filePath == IF StartsWith(path, <<"/">>) THEN Slice1(path) ELSE path
    IN  [q EXCEPT !.pc = "static", !.key = filePath, !.reads = 1]

fetch(r) ==
    /\ req[r].pc = "idle"
    /\ \E method \in Methods, path \in Paths :
          LET route == Route(method, path)
              q == [Idle EXCEPT !.method = method, !.path = path,
                                !.handler = route.handler]
          IN  req' = [req EXCEPT ![r] =
                  CASE route.handler = "preflight" ->
                          Respond(q, Response(200, <<"OK">>, corsHeaders))
                    [] route.handler = "api" -> handleApiRequestEntry(q)
                    [] route.handler = "static" -> serveStaticFileEntry(q, route.path)]
    /\ UNCHANGED <<kv, lastWriter>>

-----------------------------------------------------------------------------
(* handleApiRequest: request.json() settles and the action is dispatched *)

\* the length of the collection a request that has read will write
PendingLen(q) ==
    CASE q.pc = "add_put" -> Len(ParseOrEmpty(q.websites)) + 1
      [] q.pc \in {"update_put", "delete_put"} -> Len(ParseOrEmpty(q.websites))
      [] OTHER -> 0

MaxOf(S) == CHOOSE y \in S : \A z \in S : z <= y

\* the longest collection the requests in flight can still produce
PotentialLen ==
    MaxOf({Len(ParseOrEmpty(KvGet(WebsitesKey)))} \cup {PendingLen(req[r]) : r \in Slots})
    + Cardinality({r \in Slots : req[r].pc = "add"})

\* the model admits an add only while the collection stays within maxLen
WithinBounds(body, maxLen) ==
    (body.t = "object" /\ Prop(body, "action") = Str(<<"add">>)) => PotentialLen < maxLen

\* variant: an unknown action falls through to the get case
Dispatch_fallthrough(q) ==
    IF q.data = NotJson \/ PropThrows(q.data)
    THEN Respond(q, Response(500, <<"Error processing request">>, corsHeaders))
    ELSE LET action == Prop(q.data, "action")
         IN  CASE action = Str(<<"add">>) -> [q EXCEPT !.pc = "add", !.reads = 1]
               [] action = Str(<<"update">>) -> [q EXCEPT !.pc = "update", !.reads = 1]
               [] action = Str(<<"delete">>) -> [q EXCEPT !.pc = "delete", !.reads = 1]
               [] OTHER -> [q EXCEPT !.pc = "get", !.reads = 1]

\* variant: a body that cannot be used is answered 400
Dispatch_badRequest(q) ==
    IF q.data = NotJson \/ PropThrows(q.data)
    THEN Respond(q, Response(400, <<"Error processing request">>, corsHeaders))
    ELSE LET action == Prop(q.data, "action")
         IN  CASE action = Str(<<"get">>) -> [q EXCEPT !.pc = "get", !.reads = 1]
               [] action = Str(<<"add">>) -> [q EXCEPT !.pc = "add", !.reads = 1]
               [] action = Str(<<"update">>) -> [q EXCEPT !.pc = "update", !.reads = 1]
               [] action = Str(<<"delete">>) -> [q EXCEPT !.pc = "delete", !.reads = 1]
               [] OTHER -> Respond(q, Response(400, <<"Invalid action">>, corsHeaders))

\* the switch on data.action, each case run up to the handler's first await
Dispatch(q) ==
    IF q.data = NotJson \/ PropThrows(q.data)
    THEN Respond(q, Response(500, <<"Error processing request">>, corsHeaders))
    ELSE LET action == Prop(q.data, "action")
         IN  CASE action = Str(<<"get">>) -> [q EXCEPT !.pc = "get", !.reads = 1]
               [] action = Str(<<"add">>) -> [q EXCEPT !.pc = "add", !.reads = 1]
               [] action = Str(<<"update">>) -> [q EXCEPT !.pc = "update", !.reads = 1]
               [] action = Str(<<"delete">>) -> [q EXCEPT !.pc = "delete", !.reads = 1]
               [] OTHER -> Respond(q, Response(400, <<"Invalid action">>, corsHeaders))

\* fetch's locals url and path are dead once handleApiRequest has the request:
\* nothing reads them again, and the slot keeps only the handler fetch picked
handleApiRequestOf(r, bodies, maxLen) ==
    /\ req[r].pc = "json"
    /\ \E body \in bodies :
          /\ WithinBounds(body, maxLen)
          /\ req' = [req EXCEPT ![r] =
                  Dispatch([req[r] EXCEPT !.data = body, !.path = <<>>])]
    /\ UNCHANGED <<kv, lastWriter>>

handleApiRequest(r) == handleApiRequestOf(r, Bodies, MaxLen)

-----------------------------------------------------------------------------
(* The four sub-operations. Each KV call either returns or throws; a put   *)
(* that throws has stored nothing, and a put that returns has replaced the *)
(* whole value under the key in one step.                                  *)

\* the request holds a copy of the collection it read and has not written back
HoldsCopy(q) ==
    \/ q.pc \in {"add_put", "update_put", "delete_put"}
    \/ q.pc = "done" /\ q.handler = "api" /\ q.reads = 1 /\ q.writes = 0
                     /\ q.fault = "none"

\* a put by slot r reached the store: every other request's copy is now stale
AfterPut(r, q) ==
    [s \in Slots |->
        IF s = r THEN q
        ELSE IF HoldsCopy(req[s]) THEN [req[s] EXCEPT !.stale = TRUE]
        ELSE req[s]]

\* variant: a get that finds no collection stores the empty one
handleGetRequest_init(r) ==
    /\ req[r].pc = "get"
    /\ LET q == [req[r] EXCEPT !.websites = KvGet(WebsitesKey)]
       IN  /\ req' = [req EXCEPT ![r] =
                   Respond(q, Response(200, WebsitesBody(ParseOrEmpty(q.websites)),
                                       JsonHeaders))]
           /\ kv' = IF Truthy(q.websites) THEN kv ELSE KvPut(WebsitesKey, Stringify(<<>>))
    /\ UNCHANGED lastWriter

handleGetRequest(r) ==
    /\ req[r].pc = "get"
    /\ \E ok \in BOOLEAN :
          LET q == [req[r] EXCEPT !.websites = IF ok THEN KvGet(WebsitesKey) ELSE Undefined,
                                  !.fault = IF ok THEN "none" ELSE "get"]
          IN  req' = [req EXCEPT ![r] =
                  IF ~ok \/ ParseThrows(q.websites)
                  THEN Respond(q, Response(500, <<"Error getting websites">>, corsHeaders))
                  ELSE Respond(q, Response(200, WebsitesBody(ParseOrEmpty(q.websites)),
                                           JsonHeaders))]
    /\ UNCHANGED <<kv, lastWriter>>

\* variant: websitesArray.unshift(websiteData)
AddRecord_unshift(websitesArray, websiteData) == <<websiteData>> \o websitesArray

\* websitesArray.push(websiteData)
\* variant: a record the collection already holds is not added again
AddRecord_dedupe(websitesArray, websiteData) ==
    IF \E k \in 1..Len(websitesArray) : websitesArray[k] = websiteData
    THEN websitesArray
    ELSE Append(websitesArray, websiteData)

AddRecord(websitesArray, websiteData) == Append(websitesArray, websiteData)

\* handleAddRequest from the read's return to the call of put
handleAddRequestRead(r) ==
    /\ req[r].pc = "add"
    /\ \E ok \in BOOLEAN :
          LET q == [req[r] EXCEPT !.websites = IF ok THEN KvGet(WebsitesKey) ELSE Undefined,
                                  !.fault = IF ok THEN "none" ELSE "get"]
          IN  req' = [req EXCEPT ![r] =
                  IF ~ok \/ ParseThrows(q.websites)
                  THEN Respond(q, Response(500, <<"Error adding website">>, corsHeaders))
                  ELSE [q EXCEPT !.pc = "add_put", !.writes = 1]]
    /\ UNCHANGED <<kv, lastWriter>>

\* variant: the put is conditional on the value read still being the one stored
handleAddRequestWrite_versioned(r) ==
    /\ req[r].pc = "add_put"
    /\ IF KvGet(WebsitesKey) = req[r].websites
       THEN /\ kv' = KvPut(WebsitesKey,
                           Stringify(AddRecord(ParseOrEmpty(req[r].websites),
                                               Prop(req[r].data, "data"))))
            /\ req' = AfterPut(r, Respond(req[r], Response(200, SuccessBody, JsonHeaders)))
            /\ lastWriter' = r
       ELSE /\ req' = [req EXCEPT ![r] =
                   Respond(req[r], Response(500, <<"Error adding website">>, corsHeaders))]
            /\ UNCHANGED <<kv, lastWriter>>

\* handleAddRequest from the put's return to the response
handleAddRequestWrite(r) ==
    /\ req[r].pc = "add_put"
    /\ \E ok \in BOOLEAN :
          IF ok
          THEN /\ kv' = KvPut(WebsitesKey,
                              Stringify(AddRecord(ParseOrEmpty(req[r].websites),
                                                  Prop(req[r].data, "data"))))
               /\ req' = AfterPut(r, Respond(req[r], Response(200, SuccessBody, JsonHeaders)))
               /\ lastWriter' = r
          ELSE /\ req' = [req EXCEPT ![r] =
                      Respond([req[r] EXCEPT !.fault = "put"],
                              Response(500, <<"Error adding website">>, corsHeaders))]
               /\ UNCHANGED <<kv, lastWriter>>

\* variant: index < websitesArray.length, the lower bound forgotten
IndexInRange_noLower(index, length) == index.t = "number" /\ index.n < length

\* index >= 0 && index < websitesArray.length (false for undefined: NaN)
IndexInRange(index, length) ==
    index.t = "number" /\ index.n >= 0 /\ index.n < length

\* variant: websitesArray.splice(index, 0, websiteData)
UpdateRecord_insert(websitesArray, index, websiteData) ==
    SubSeq(websitesArray, 1, index.n) \o <<websiteData>>
        \o SubSeq(websitesArray, index.n + 1, Len(websitesArray))

\* websitesArray[index] = websiteData
UpdateRecord(websitesArray, index, websiteData) ==
    [websitesArray EXCEPT ![index.n + 1] = websiteData]

\* variant: the else branch is missing and the handler returns no Response
handleUpdateRequestRead_noElse(r) ==
    /\ req[r].pc = "update"
    /\ \E ok \in BOOLEAN :
          LET q == [req[r] EXCEPT !.websites = IF ok THEN KvGet(WebsitesKey) ELSE Undefined,
                                  !.fault = IF ok THEN "none" ELSE "get"]
          IN  req' = [req EXCEPT ![r] =
                  IF ~ok \/ ParseThrows(q.websites)
                  THEN Respond(q, Response(500, <<"Error updating website">>, corsHeaders))
                  ELSE IF IndexInRange(Prop(q.data, "index"), Len(ParseOrEmpty(q.websites)))
                  THEN [q EXCEPT !.pc = "update_put", !.writes = 1]
                  ELSE [q EXCEPT !.pc = "returned"]]
    /\ UNCHANGED <<kv, lastWriter>>

handleUpdateRequestRead(r) ==
    /\ req[r].pc = "update"
    /\ \E ok \in BOOLEAN :
          LET q == [req[r] EXCEPT !.websites = IF ok THEN KvGet(WebsitesKey) ELSE Undefined,
                                  !.fault = IF ok THEN "none" ELSE "get"]
          IN  req' = [req EXCEPT ![r] =
                  IF ~ok \/ ParseThrows(q.websites)
                  THEN Respond(q, Response(500, <<"Error updating website">>, corsHeaders))
                  ELSE IF IndexInRange(Prop(q.data, "index"), Len(ParseOrEmpty(q.websites)))
                  THEN [q EXCEPT !.pc = "update_put", !.writes = 1]
                  ELSE Respond(q, Response(400, <<"Invalid index">>, corsHeaders))]
    /\ UNCHANGED <<kv, lastWriter>>

\* variant: a put that throws is tried once more
handleUpdateRequestWrite_retry(r) ==
    /\ req[r].pc = "update_put"
    /\ \E ok \in BOOLEAN :
          /\ kv' = KvPut(WebsitesKey,
                         Stringify(UpdateRecord(ParseOrEmpty(req[r].websites),
                                                Prop(req[r].data, "index"),
                                                Prop(req[r].data, "data"))))
          /\ req' = AfterPut(r, Respond([req[r] EXCEPT !.fault = IF ok THEN "none" ELSE "put",
                                                       !.writes = IF ok THEN 1 ELSE 2],
                                        Response(200, SuccessBody, JsonHeaders)))
          /\ lastWriter' = r

handleUpdateRequestWrite(r) ==
    /\ req[r].pc = "update_put"
    /\ \E ok \in BOOLEAN :
          IF ok
          THEN /\ kv' = KvPut(WebsitesKey,
                              Stringify(UpdateRecord(ParseOrEmpty(req[r].websites),
                                                     Prop(req[r].data, "index"),
                                                     Prop(req[r].data, "data"))))
               /\ req' = AfterPut(r, Respond(req[r], Response(200, SuccessBody, JsonHeaders)))
               /\ lastWriter' = r
          ELSE /\ req' = [req EXCEPT ![r] =
                      Respond([req[r] EXCEPT !.fault = "put"],
                              Response(500, <<"Error updating website">>, corsHeaders))]
               /\ UNCHANGED <<kv, lastWriter>>

\* variant: the id is read with website?.id, which does not throw
FilterThrows_optional(websitesArray) == FALSE

\* website.id throws a TypeError on a null element
FilterThrows(websitesArray) ==
    \E i \in 1..Len(websitesArray) : PropThrows(websitesArray[i])

\* websitesArray.filter(website => website.id !== websiteId)
FilterWebsites(websitesArray, websiteId) ==
    LET Keep(website) == Prop(website, "id") # websiteId
    IN  SelectSeq(websitesArray, Keep)

handleDeleteRequestRead(r) ==
    /\ req[r].pc = "delete"
    /\ \E ok \in BOOLEAN :
          LET q == [req[r] EXCEPT !.websites = IF ok THEN KvGet(WebsitesKey) ELSE Undefined,
                                  !.fault = IF ok THEN "none" ELSE "get"]
          IN  req' = [req EXCEPT ![r] =
                  IF ~ok \/ ParseThrows(q.websites) \/ FilterThrows(ParseOrEmpty(q.websites))
                  THEN Respond(q, Response(500, <<"Error deleting website">>, corsHeaders))
                  ELSE [q EXCEPT !.pc = "delete_put", !.writes = 1]]
    /\ UNCHANGED <<kv, lastWriter>>

\* variant: when no record is left the key is removed instead of written
handleDeleteRequestWrite_removeKey(r) ==
    /\ req[r].pc = "delete_put"
    /\ LET filteredWebsites == FilterWebsites(ParseOrEmpty(req[r].websites),
                                              Prop(req[r].data, "id"))
       IN  kv' = IF filteredWebsites = <<>>
                 THEN [k \in DOMAIN kv \ {WebsitesKey} |-> kv[k]]
                 ELSE KvPut(WebsitesKey, Stringify(filteredWebsites))
    /\ req' = AfterPut(r, Respond(req[r], Response(200, SuccessBody, JsonHeaders)))
    /\ lastWriter' = r

handleDeleteRequestWrite(r) ==
    /\ req[r].pc = "delete_put"
    /\ \E ok \in BOOLEAN :
          IF ok
          THEN /\ kv' = KvPut(WebsitesKey,
                              Stringify(FilterWebsites(ParseOrEmpty(req[r].websites),
                                                       Prop(req[r].data, "id"))))
               /\ req' = AfterPut(r, Respond(req[r], Response(200, SuccessBody, JsonHeaders)))
               /\ lastWriter' = r
          ELSE /\ req' = [req EXCEPT ![r] =
                      Respond([req[r] EXCEPT !.fault = "put"],
                              Response(500, <<"Error deleting website">>, corsHeaders))]
               /\ UNCHANGED <<kv, lastWriter>>

-----------------------------------------------------------------------------
(* serveStaticFile from the read's return *)

serveStaticFile(r) ==
    /\ req[r].pc = "static"
    /\ \E ok \in BOOLEAN :
          LET fileContent == KvGet(req[r].key)
          IN  req' = [req EXCEPT ![r] =
                  IF ~ok
                  THEN Respond([req[r] EXCEPT !.fault = "get"],
                               Response(500, <<"Error serving file">>, PlainHeaders))
                  ELSE IF Truthy(fileContent)
                  THEN Respond(req[r], Response(200, fileContent.s,
                                   ("Content-Type" :> getContentType(req[r].key))))
                  ELSE Respond(req[r], Response(404, <<"File not found">>, PlainHeaders))]
    /\ UNCHANGED <<kv, lastWriter>>

-----------------------------------------------------------------------------
(* The platform delivers the response and the slot takes the next request *)

Retire(r) ==
    /\ req[r].pc = "done"
    /\ req' = [req EXCEPT ![r] = Idle]
    /\ lastWriter' = IF lastWriter = r THEN 0 ELSE lastWriter
    /\ kv' = kv

Next ==
    \E r \in Slots :
        \/ fetch(r)
        \/ handleApiRequest(r)
        \/ handleGetRequest(r)
        \/ handleAddRequestRead(r)
        \/ handleAddRequestWrite(r)
        \/ handleUpdateRequestRead(r)
        \/ handleUpdateRequestWrite(r)
        \/ handleDeleteRequestRead(r)
        \/ handleDeleteRequestWrite(r)
        \/ serveStaticFile(r)
        \/ Retire(r)

Spec == Init /\ [][Next]_vars

\* the awaited promise of the request in slot r settles and its handler runs on
Settle(r) ==
    \/ handleApiRequest(r)
    \/ handleGetRequest(r)
    \/ handleAddRequestRead(r)
    \/ handleAddRequestWrite(r)
    \/ handleUpdateRequestRead(r)
    \/ handleUpdateRequestWrite(r)
    \/ handleDeleteRequestRead(r)
    \/ handleDeleteRequestWrite(r)
    \/ serveStaticFile(r)

\* a selection of requests that takes every branch of every handler
FewPaths ==
    {<<"/">>, <<"/", "logo", ".svg">>, <<"/", "style", ".css">>,
     <<"/", "api", "/", "websites">>}

FewBodies ==
    {NotJson, Body("purge", Undefined, Undefined, Undefined),
     Body("get", Undefined, Undefined, Undefined),
     Body("add", Undefined, Undefined, Undefined),
     Body("add", WebsiteA, Undefined, Undefined),
     Body("update", WebsiteB, Num(0), Undefined),
     Body("update", WebsiteB, Num(MaxLen), Undefined),
     Body("delete", Undefined, Undefined, IdA)}

FewRequests ==
    \A r \in Slots :
        /\ req[r].path \in FewPaths \cup {<<>>}
        /\ req[r].data \in FewBodies \cup {Undefined}

FairNext ==
    \E r \in Slots :
        \/ fetch(r) /\ FewRequests'
        \/ handleApiRequest(r) /\ FewRequests'
        \/ handleGetRequest(r)
        \/ handleAddRequestRead(r)
        \/ handleAddRequestWrite(r)
        \/ handleUpdateRequestRead(r)
        \/ handleUpdateRequestWrite(r)
        \/ handleDeleteRequestRead(r)
        \/ handleDeleteRequestWrite(r)
        \/ serveStaticFile(r)
        \/ Retire(r)

\* every promise a request awaits settles: request.json(), KV get and KV put
\* each return or throw, and the event loop runs the continuation
FairSpec ==
    /\ Init
    /\ [][FairNext]_vars
    /\ \A r \in Slots : WF_vars(Settle(r) /\ FewRequests')

\* the requests of the add race: adds of either record against a collection
\* of up to RaceLen records, with the other actions to build and inspect it
RacePaths == {<<"/">>, <<"/", "api", "/", "websites">>}

RaceBodies ==
    {Body("get", Undefined, Undefined, Undefined),
     Body("add", WebsiteA, Undefined, Undefined),
     Body("add", WebsiteB, Undefined, Undefined),
     Body("update", WebsiteB, Num(0), Undefined),
     Body("delete", Undefined, Undefined, IdA)}

RaceRequests == \A r \in Slots : req[r].path \in RacePaths \cup {<<>>}

RaceNext ==
    \E r \in Slots :
        \/ fetch(r) /\ RaceRequests'
        \/ handleApiRequestOf(r, RaceBodies, RaceLen)
        \/ handleGetRequest(r)
        \/ handleAddRequestRead(r)
        \/ handleAddRequestWrite(r)
        \/ handleUpdateRequestRead(r)
        \/ handleUpdateRequestWrite(r)
        \/ handleDeleteRequestRead(r)
        \/ handleDeleteRequestWrite(r)
        \/ serveStaticFile(r)
        \/ Retire(r)

RaceSpec == Init /\ [][RaceNext]_vars

-----------------------------------------------------------------------------
(* Vocabulary of the properties *)

Done(r) == req[r].pc = "done"

\* the request in slot r was dispatched to the sub-operation of that name
Is(r, action) ==
    /\ req[r].handler = "api"
    /\ req[r].data.t = "object"
    /\ Prop(req[r].data, "action") = Str(<<action>>)

\* every KV call of the request returned
NoFault(r) == req[r].fault = "none"

\* the request has the read's result
HasRead(r) == req[r].websites # Undefined

\* the collection the request read: the empty one for an absent key
Old(r) == IF req[r].websites = Null THEN <<>> ELSE Parse(req[r].websites.s)

\* the collection a get returns now
Collection == IF WebsitesKey \in DOMAIN kv THEN Parse(kv[WebsitesKey]) ELSE <<>>

Succeeded(r) == req[r].resp = Response(200, SuccessBody, JsonHeaders)

\* no put of another request reached the store since the request's read
Undisturbed(r) == ~req[r].stale /\ (req[r].writes = 1 => lastWriter = r)

\* a record as it reads back from JSON text
AsJson(v) == IF v = Undefined THEN Null ELSE v

IdOf(website) ==
    IF website.t = "object" /\ "id" \in DOMAIN website.f THEN website.f.id ELSE Undefined

RECURSIVE Without(_, _)
Without(websites, id) ==
    IF websites = <<>> THEN <<>>
    ELSE IF IdOf(Head(websites)) = id THEN Without(Tail(websites), id)
    ELSE <<Head(websites)>> \o Without(Tail(websites), id)

\* the collection the request's own read and change give, whatever others wrote
OwnResult(r) ==
    CASE Is(r, "add") -> Old(r) \o <<AsJson(Prop(req[r].data, "data"))>>
      [] Is(r, "update") ->
            [k \in 1..Len(Old(r)) |->
                IF k = Prop(req[r].data, "index").n + 1
                THEN AsJson(Prop(req[r].data, "data")) ELSE Old(r)[k]]
      [] Is(r, "delete") -> Without(Old(r), Prop(req[r].data, "id"))

Mutating(r) == Is(r, "add") \/ Is(r, "update") \/ Is(r, "delete")

-----------------------------------------------------------------------------
(* C1: a mutating request whose read and put both returned answers           *)
(* {success:true} even when another request's put landed between its read   *)
(* and its put, and while its put is the last one the stored collection is  *)
(* its own read with its own change alone: there is no version check, no    *)
(* retry and no merge, so the earlier writer's change is lost silently.     *)
C1_LastWriteWins ==
    \A r \in Slots :
        (Done(r) /\ Mutating(r) /\ NoFault(r) /\ req[r].writes = 1) =>
            /\ Succeeded(r)
            /\ lastWriter = r => Collection = OwnResult(r)

\* two adds read the same collection before either wrote, both answered
\* success, and the collection grew by one record only: the first add is lost
C1_Witness ==
    \E r1, r2 \in Slots :
        /\ r1 # r2
        /\ Done(r1) /\ Done(r2)
        /\ Is(r1, "add") /\ Is(r2, "add")
        /\ Prop(req[r1].data, "data") = WebsiteA
        /\ Prop(req[r2].data, "data") = WebsiteB
        /\ req[r1].websites = req[r2].websites
        /\ ~req[r1].stale /\ req[r2].stale
        /\ Succeeded(r1) /\ Succeeded(r2)
        /\ lastWriter = r2
        /\ Collection = Old(r2) \o <<WebsiteB>>
        /\ \A k \in 1..Len(Collection) : Collection[k] # WebsiteA

(* C2: with no store fault and no interfering put, add(R) answers           *)
(* {success:true} and a following get returns the previous collection, in   *)
(* the same order, followed by R.                                           *)
C2_AddAppends ==
    \A r \in Slots :
        (/\ Done(r) /\ Is(r, "add") /\ NoFault(r) /\ Undisturbed(r)
         /\ Prop(req[r].data, "data") # Undefined) =>
            /\ Succeeded(r)
            /\ Len(Collection) = Len(Old(r)) + 1
            /\ Collection[Len(Collection)] = Prop(req[r].data, "data")
            /\ \A k \in 1..Len(Old(r)) : Collection[k] = Old(r)[k]

C2_Witness ==
    \E r \in Slots :
        /\ Done(r) /\ Is(r, "add") /\ NoFault(r) /\ Undisturbed(r)
        /\ Prop(req[r].data, "data") = WebsiteB
        /\ Old(r) = <<WebsiteA>>
        /\ Collection = <<WebsiteA, WebsiteB>>

\* 0 <= i < N for the index the request carries and the collection it read
InRange(r) ==
    LET index == Prop(req[r].data, "index")
    IN  index.t = "number" /\ 0 <= index.n /\ index.n < Len(Old(r))

(* C3: with no store fault and no interfering put, update(R, i) with        *)
(* 0 <= i < N leaves a collection of the same length N whose element i is R *)
(* and whose other elements are unchanged, each in its position.            *)
C3_UpdateReplaces ==
    \A r \in Slots :
        (/\ Done(r) /\ Is(r, "update") /\ NoFault(r) /\ Undisturbed(r)
         /\ InRange(r)) =>
            LET i == Prop(req[r].data, "index").n
            IN  /\ Succeeded(r)
                /\ Len(Collection) = Len(Old(r))
                /\ Collection[i + 1] = Prop(req[r].data, "data")
                /\ \A k \in 1..Len(Old(r)) : k # i + 1 => Collection[k] = Old(r)[k]

C3_Witness ==
    \E r \in Slots :
        /\ Done(r) /\ Is(r, "update") /\ NoFault(r) /\ Undisturbed(r)
        /\ Prop(req[r].data, "index") = Num(1)
        /\ Prop(req[r].data, "data") = WebsiteA
        /\ Old(r) = <<WebsiteA, WebsiteB>>
        /\ Collection = <<WebsiteA, WebsiteA>>

(* C4: when the read returns, update(R, i) with i < 0 or i >= N (N = 0 for  *)
(* an absent key) answers 400 'Invalid index' without calling put, and the  *)
(* value under 'websites' is what the request read unless another request   *)
(* wrote since: an absent key stays absent.                                 *)
C4_InvalidIndex ==
    \A r \in Slots :
        (/\ Is(r, "update") /\ HasRead(r)
         /\ Prop(req[r].data, "index").t = "number"
         /\ ~InRange(r)) =>
            /\ req[r].resp = Response(400, <<"Invalid index">>, corsHeaders)
            /\ req[r].writes = 0
            /\ ~req[r].stale => KvGet(WebsitesKey) = req[r].websites

C4_Witness ==
    \E r1, r2 \in Slots :
        /\ Done(r1) /\ Is(r1, "update") /\ HasRead(r1)
        /\ Prop(req[r1].data, "index") = Num(-1)
        /\ Old(r1) = <<WebsiteB>>
        /\ ~req[r1].stale
        /\ Done(r2) /\ Is(r2, "update") /\ HasRead(r2)
        /\ Prop(req[r2].data, "index") = Num(MaxLen)
        /\ req[r2].websites = Null
        /\ req[r2].stale
        /\ req[r2].resp.status = 400

(* C5: with no store fault and no interfering put, delete(id) answers        *)
(* {success:true} for every stored collection, and a following get returns  *)
(* the elements whose id differs from the given one, in their order; with   *)
(* no matching element the contents are unchanged.                          *)
C5_DeleteRemoves ==
    \A r \in Slots :
        (Done(r) /\ Is(r, "delete") /\ NoFault(r) /\ Undisturbed(r)) =>
            /\ Succeeded(r)
            /\ Collection = Without(Old(r), Prop(req[r].data, "id"))

(* C6: when the read returns, get answers 200 with {websites: X}, X being   *)
(* the array text stored under 'websites' at the read, or [] for an absent  *)
(* key; get calls put never, and X is the value stored now unless another   *)
(* request wrote since.                                                     *)
C6_GetReturnsStored ==
    \A r \in Slots :
        (Done(r) /\ Is(r, "get") /\ NoFault(r)) =>
            /\ req[r].resp =
                  Response(200,
                           <<"{", "\"websites\"", ":">>
                               \o (IF req[r].websites = Null THEN <<"[", "]">>
                                   ELSE req[r].websites.s)
                               \o <<"}">>,
                           JsonHeaders)
            /\ req[r].writes = 0
            /\ ~req[r].stale => req[r].websites = KvGet(WebsitesKey)

C6_Witness ==
    \E r1, r2 \in Slots :
        /\ Done(r1) /\ Is(r1, "get") /\ NoFault(r1) /\ ~req[r1].stale
        /\ req[r1].websites = Str(Stringify(<<WebsiteA, WebsiteB>>))
        /\ req[r1].resp.status = 200
        /\ Done(r2) /\ Is(r2, "get") /\ NoFault(r2) /\ req[r2].stale
        /\ req[r2].websites = Null
        /\ req[r2].resp.body = <<"{", "\"websites\"", ":", "[", "]", "}">>

(* C7: in every reachable state the key 'websites' is absent or holds JSON  *)
(* array text, whatever requests ran, raced or failed.                      *)
C7_AlwaysArrayText ==
    WebsitesKey \in DOMAIN kv => IsArrayText(kv[WebsitesKey])

\* the key holds a two-element array after a put that threw, an out-of-range
\* update and a lost update
C7_Witness ==
    /\ WebsitesKey \in DOMAIN kv
    /\ Len(kv[WebsitesKey]) = 5
    /\ \E r1, r2 \in Slots :
          /\ Done(r1) /\ req[r1].fault = "put"
          /\ Done(r2) /\ Mutating(r2) /\ req[r2].stale /\ lastWriter = r2

(* C8: a request whose method is neither POST nor OPTIONS and whose path is *)
(* an API path is answered 405 (here even granted that no KV call throws).  *)
C8_NonPostApi405 ==
    \A r \in Slots :
        (/\ Done(r) /\ NoFault(r)
         /\ req[r].method \notin {"POST", "OPTIONS"}
         /\ IsApiPath(req[r].path)) =>
            req[r].resp.status = 405

\* data.action can be read and is none of the four actions
UnknownAction(r) ==
    /\ req[r].handler = "api"
    /\ req[r].data # NotJson
    /\ ~PropThrows(req[r].data)
    /\ Prop(req[r].data, "action")
          \notin {Str(<<"get">>), Str(<<"add">>), Str(<<"update">>), Str(<<"delete">>)}

(* C9 as stated: a POST to an API path whose body is not JSON, one whose    *)
(* action is none of the four, and an update with an out-of-range index     *)
(* each answer 400.                                                         *)
C9_Malformed400 ==
    \A r \in Slots :
        (/\ Done(r)
         /\ \/ req[r].handler = "api" /\ req[r].data = NotJson
            \/ UnknownAction(r)
            \/ Is(r, "update") /\ HasRead(r) /\ ~InRange(r)) =>
            req[r].resp.status = 400

(* C9 amended: an action that is none of the four answers 400 'Invalid      *)
(* action', an update with an out-of-range index whose read returned        *)
(* answers 400 'Invalid index', and a body that is not JSON answers 500.    *)
C9_MalformedAmended ==
    \A r \in Slots :
        Done(r) =>
            /\ UnknownAction(r) =>
                  req[r].resp = Response(400, <<"Invalid action">>, corsHeaders)
            /\ (Is(r, "update") /\ HasRead(r) /\ ~InRange(r)) =>
                  req[r].resp = Response(400, <<"Invalid index">>, corsHeaders)
            /\ (req[r].handler = "api" /\ req[r].data = NotJson) =>
                  req[r].resp.status = 500

C9_Witness ==
    \E r1, r2 \in Slots :
        /\ Done(r1) /\ UnknownAction(r1) /\ req[r1].data = Num(5)
        /\ req[r1].resp.status = 400
        /\ Done(r2) /\ Is(r2, "update") /\ HasRead(r2) /\ ~InRange(r2)
        /\ Prop(req[r2].data, "index") = Undefined
        /\ Old(r2) = <<WebsiteA>>
        /\ req[r2].resp.status = 400

\* an element of the collection read makes website.id throw
HitsNull(r) ==
    Is(r, "delete") /\ HasRead(r) /\ \E k \in 1..Len(Old(r)) : Old(r)[k] = Null

(* C10: a POST to an API path whose body is not JSON, or parses to null,    *)
(* answers 500 with a generic text and the CORS headers without any KV      *)
(* call; a sub-operation in which a KV call or the record access throws     *)
(* answers 500 with a generic text and the CORS headers.                    *)
C10_Errors500 ==
    \A r \in Slots :
        (Done(r) /\ req[r].handler = "api") =>
            /\ req[r].data \in {NotJson, Null} =>
                  /\ req[r].resp =
                        Response(500, <<"Error processing request">>, corsHeaders)
                  /\ req[r].reads = 0
                  /\ req[r].writes = 0
            /\ (req[r].fault # "none" \/ HitsNull(r)) =>
                  /\ req[r].resp.status = 500
                  /\ req[r].resp.headers = corsHeaders
                  /\ req[r].resp.body \in
                        {<<"Error getting websites">>, <<"Error adding website">>,
                         <<"Error updating website">>, <<"Error deleting website">>}

C10_Witness ==
    \E r1, r2 \in Slots :
        /\ Done(r1) /\ req[r1].handler = "api" /\ req[r1].data = NotJson
        /\ req[r1].resp.status = 500
        /\ Done(r2) /\ Is(r2, "update") /\ req[r2].fault = "put"
        /\ req[r2].resp.status = 500

-----------------------------------------------------------------------------
\* the request still carries the path it came with
HasPath(r) == req[r].path # <<>>

\* the path ends with '/worker.js' or starts with '/api/'
ApiPath(path) ==
    \/ Len(path) >= 3 /\ <<path[1], path[2], path[3]>> = <<"/", "api", "/">>
    \/ Len(path) >= 3
       /\ <<path[Len(path) - 2], path[Len(path) - 1], path[Len(path)]>>
             = <<"/", "worker", ".js">>

\* the path ends with one of .html .css .js .png .jpg .svg
AssetPath(path) ==
    path[Len(path)] \in {".html", ".css", ".js", ".png", ".jpg", ".svg"}

(* C11: every request goes to one handler, by this priority: OPTIONS to the *)
(* preflight answer; else POST to a path ending in '/worker.js' or starting *)
(* with '/api/' to the API dispatcher; else a path with an asset suffix to  *)
(* the static server with that path; else the static server with           *)
(* '/index.html'.                                                           *)
C11_Routing ==
    \A r \in Slots :
        /\ req[r].pc # "idle" =>
              req[r].handler \in {"preflight", "api", "static"}
        /\ req[r].handler = "api" =>
              req[r].method = "POST" /\ req[r].pc \notin {"static"} /\ req[r].key = <<>>
        /\ (req[r].pc # "idle" /\ HasPath(r)) =>
              IF req[r].method = "OPTIONS"
              THEN req[r].handler = "preflight" /\ req[r].pc = "done"
              ELSE IF req[r].method = "POST" /\ ApiPath(req[r].path)
              THEN req[r].handler = "api" /\ req[r].pc = "json"
              ELSE IF AssetPath(req[r].path)
              THEN /\ req[r].handler = "static"
                   /\ req[r].pc \in {"static", "done"}
                   /\ <<"/">> \o req[r].key = req[r].path
              ELSE /\ req[r].handler = "static"
                   /\ req[r].pc \in {"static", "done"}
                   /\ req[r].key = <<"index", ".html">>

\* a POST to a path that is neither an API path nor an asset goes to the index
\* while a POST to '/worker.js', an asset suffix too, goes to the dispatcher
C11_Witness ==
    \E r1, r2 \in Slots :
        /\ req[r1].method = "POST" /\ req[r1].path = <<"/", "websites">>
        /\ req[r1].pc = "static" /\ req[r1].key = <<"index", ".html">>
        /\ req[r2].method = "POST" /\ req[r2].path = <<"/", "worker", ".js">>
        /\ req[r2].pc = "json"

(* C12: an OPTIONS request to any path, API and asset paths included, is    *)
(* answered 200 'OK' with the three CORS headers and makes no KV call.      *)
C12_Preflight ==
    \A r \in Slots :
        (req[r].pc # "idle" /\ req[r].method = "OPTIONS") =>
            /\ req[r].pc = "done"
            /\ req[r].resp.status = 200
            /\ req[r].resp.body = <<"OK">>
            /\ DOMAIN req[r].resp.headers =
                  {"Access-Control-Allow-Origin", "Access-Control-Allow-Methods",
                   "Access-Control-Allow-Headers"}
            /\ req[r].resp.headers["Access-Control-Allow-Origin"] = "*"
            /\ req[r].resp.headers["Access-Control-Allow-Methods"] = "POST, GET, OPTIONS"
            /\ req[r].resp.headers["Access-Control-Allow-Headers"] = "Content-Type"
            /\ req[r].reads = 0
            /\ req[r].writes = 0

C12_Witness ==
    \E r1, r2 \in Slots :
        /\ Done(r1) /\ req[r1].method = "OPTIONS"
        /\ req[r1].path = <<"/", "api", "/", "websites">>
        /\ Done(r2) /\ req[r2].method = "OPTIONS"
        /\ req[r2].path = <<"/", "logo", ".svg">>
        /\ req[r1].resp.status = 200 /\ req[r2].resp.status = 200

\* the content type the suffix of a key stands for
TypeOfSuffix(key) ==
    CASE key[Len(key)] = ".html" -> "text/html"
      [] key[Len(key)] = ".css" -> "text/css"
      [] key[Len(key)] = ".js" -> "application/javascript"
      [] key[Len(key)] = ".png" -> "image/png"
      [] key[Len(key)] \in {".jpg", ".jpeg"} -> "image/jpeg"
      [] key[Len(key)] = ".svg" -> "image/svg+xml"
      [] OTHER -> "application/octet-stream"

(* C13: a request routed to the static server with path p looks up p        *)
(* without its leading '/'; if the store holds a value for that key the     *)
(* answer is 200 with that value and the content type of the suffix; if the *)
(* key is not found it is 404 text/plain; if the lookup throws it is 500    *)
(* text/plain.                                                              *)
C13_StaticServer ==
    \A r \in Slots :
        (Done(r) /\ req[r].handler = "static") =>
            /\ <<"/">> \o req[r].key =
                  (IF AssetPath(req[r].path) THEN req[r].path ELSE <<"/", "index", ".html">>)
            /\ req[r].fault = "get" =>
                  /\ req[r].resp.status = 500
                  /\ req[r].resp.headers = ("Content-Type" :> "text/plain")
            /\ (NoFault(r) /\ req[r].key \in DOMAIN kv) =>
                  /\ req[r].resp.status = 200
                  /\ req[r].resp.body = kv[req[r].key]
                  /\ req[r].resp.headers = ("Content-Type" :> TypeOfSuffix(req[r].key))
            /\ (NoFault(r) /\ req[r].key \notin DOMAIN kv) =>
                  /\ req[r].resp.status = 404
                  /\ req[r].resp.headers = ("Content-Type" :> "text/plain")

(* C14: under fair scheduling, with KV calls that return or throw, every    *)
(* request is eventually answered, and a request that has its answer keeps  *)
(* that one answer until the slot is given up: no request is answered       *)
(* twice.                                                                   *)
C14_OneResponse ==
    /\ \A r \in Slots : (req[r].pc # "idle") ~> Done(r)
    /\ [][\A r \in Slots :
            /\ (req[r].resp = NoResponse) <=> (req[r].pc # "done")
            /\ req[r].resp # NoResponse =>
                  (req'[r].resp = req[r].resp \/ req'[r] = Idle)]_vars

\* two racing requests, one of which had its put throw, are both answered
C14_Witness ==
    \E r1, r2 \in Slots :
        /\ Done(r1) /\ Mutating(r1) /\ req[r1].fault = "put"
        /\ Done(r2) /\ Mutating(r2) /\ req[r2].stale /\ Succeeded(r2)

(* C15: when the put of an add, update or delete throws after its read      *)
(* returned, that step leaves the store as it is and answers 500 with the   *)
(* CORS headers after one get and one put; the request then takes no        *)
(* further step, so the change it made in memory is never stored.           *)
C15_FailedPut ==
    [][\A r \in Slots :
          /\ (req[r].fault # "put" /\ req'[r].fault = "put") =>
                /\ req[r].pc \in {"add_put", "update_put", "delete_put"}
                /\ kv' = kv
                /\ lastWriter' = lastWriter
                /\ req'[r].pc = "done"
                /\ req'[r].resp.status = 500
                /\ req'[r].resp.headers = corsHeaders
                /\ req'[r].reads = 1
                /\ req'[r].writes = 1
          /\ req[r].fault = "put" => (req'[r] = req[r] \/ req'[r] = Idle)]_vars

\* an add of A whose put threw: answered 500, and the collection it read is
\* still the one stored
C15_Witness ==
    \E r \in Slots :
        /\ Done(r) /\ Is(r, "add") /\ req[r].fault = "put"
        /\ Prop(req[r].data, "data") = WebsiteA
        /\ req[r].resp.status = 500
        /\ Old(r) = <<WebsiteB>>
        /\ Collection = <<WebsiteB>>

(* C16 as stated: from a store without the key 'websites', the key stays    *)
(* absent until an add has completed its put; no get, update or delete      *)
(* creates it.                                                              *)
C16_OnlyAddCreates ==
    [][(WebsitesKey \notin DOMAIN kv /\ WebsitesKey \in DOMAIN kv') =>
          \E r \in Slots : req[r].pc = "add_put" /\ req'[r].pc = "done"]_vars

(* C16 amended: from a store without the key 'websites', the key stays      *)
(* absent until an add or a delete has completed its put; no get and no     *)
(* update creates it.                                                       *)
C16_AddOrDeleteCreates ==
    [][(WebsitesKey \notin DOMAIN kv /\ WebsitesKey \in DOMAIN kv') =>
          \E r \in Slots :
              /\ req[r].pc \in {"add_put", "delete_put"}
              /\ req'[r].pc = "done"
              /\ Succeeded(r)'
              /\ lastWriter' = r]_vars

\* a delete that found no key has created it, holding the empty array
C16_Witness ==
    \E r \in Slots :
        /\ Done(r) /\ Is(r, "delete") /\ Succeeded(r)
        /\ req[r].websites = Null
        /\ lastWriter = r
        /\ WebsitesKey \in DOMAIN kv
        /\ kv[WebsitesKey] = <<"[", "]">>

(* C17: once the key 'websites' is present it is present in every later     *)
(* state, and a delete that removes every element it read stores the empty  *)
(* array '[]' under the key.                                                *)
C17_NeverDestroyed ==
    [][/\ WebsitesKey \in DOMAIN kv => WebsitesKey \in DOMAIN kv'
       /\ \A r \in Slots :
             (/\ req[r].pc = "delete_put" /\ req'[r].pc = "done" /\ Succeeded(r)'
              /\ \A k \in 1..Len(Old(r)) : IdOf(Old(r)[k]) = Prop(req[r].data, "id")) =>
                 /\ WebsitesKey \in DOMAIN kv'
                 /\ kv'[WebsitesKey] = <<"[", "]">>]_vars

C17_Witness ==
    \E r \in Slots :
        /\ Done(r) /\ Is(r, "delete") /\ Succeeded(r)
        /\ Old(r) = <<WebsiteA, WebsiteA>>
        /\ lastWriter = r
        /\ WebsitesKey \in DOMAIN kv
        /\ kv[WebsitesKey] = <<"[", "]">>

(* C18: the API touches only the key 'websites' and the static server      *)
(* only other keys: every asset holds the value it had at the start, the    *)
(* namespace holds the assets and at most the key 'websites', an API        *)
(* request's read is the value under 'websites', and a static request of    *)
(* any path looks up a key other than 'websites' and calls put never.       *)
C18_KeyIsolation ==
    /\ \A k \in DOMAIN Assets : k \in DOMAIN kv /\ kv[k] = Assets[k]
    /\ DOMAIN kv \subseteq DOMAIN Assets \cup {WebsitesKey}
    /\ \A r \in Slots :
          /\ (req[r].handler = "api" /\ HasRead(r) /\ NoFault(r) /\ req[r].writes = 0
                /\ ~req[r].stale) => req[r].websites = KvGet(WebsitesKey)
          /\ req[r].handler = "api" => req[r].key = Idle.key
          /\ req[r].handler = "static" =>
                /\ req[r].key # WebsitesKey
                /\ req[r].writes = 0
                /\ req[r].websites = Undefined

\* GET /websites is answered with the index page while the collection is
\* stored under the key 'websites'
C18_Witness ==
    \E r \in Slots :
        /\ Done(r) /\ req[r].handler = "static"
        /\ req[r].path = <<"/", "websites">>
        /\ req[r].resp.status = 200
        /\ req[r].resp.body = Assets[req[r].key]
        /\ WebsitesKey \in DOMAIN kv
        /\ Collection = <<WebsiteA>>

(* C19: two adds, of R1 and R2, that both ran to their response without      *)
(* store fault, the first having read the N records B and the second, whose *)
(* put came last, having read B or B with R1: both answer {success:true}    *)
(* and the collection is B followed by R2 alone (N+1) or by R1 and R2       *)
(* (N+2), so B is an unchanged prefix of it.                                *)
C19_AddRace ==
    \A r1, r2 \in Slots :
        LET B == Old(r1)
            R1 == Prop(req[r1].data, "data")
            R2 == Prop(req[r2].data, "data")
        IN  (/\ r1 # r2
             /\ Done(r1) /\ Is(r1, "add") /\ NoFault(r1)
             /\ Done(r2) /\ Is(r2, "add") /\ NoFault(r2)
             /\ lastWriter = r2
             /\ Old(r2) \in {B, B \o <<R1>>}) =>
                /\ Succeeded(r1) /\ Succeeded(r2)
                /\ Collection \in {B \o <<R2>>, B \o <<R1, R2>>}
                /\ Collection = Old(r2) \o <<R2>>
                /\ Len(Collection) >= Len(B) + 1
                /\ SubSeq(Collection, 1, Len(B)) = B

\* both adds read the one record B; the later put dropped the earlier record
C19_Witness ==
    \E r1, r2 \in Slots :
        /\ r1 # r2
        /\ Done(r1) /\ Is(r1, "add") /\ NoFault(r1) /\ Succeeded(r1)
        /\ Done(r2) /\ Is(r2, "add") /\ NoFault(r2) /\ Succeeded(r2)
        /\ Prop(req[r1].data, "data") = WebsiteA
        /\ Prop(req[r2].data, "data") = WebsiteB
        /\ Old(r1) = <<WebsiteB>> /\ Old(r2) = <<WebsiteB>>
        /\ req[r2].stale
        /\ lastWriter = r2
        /\ Collection = <<WebsiteB, WebsiteB>>

\* the collection holds a null element
HasNull(websites) == \E k \in 1..Len(websites) : websites[k] = Null

(* C20 as stated: while the stored collection holds a null element, every   *)
(* delete request that comes to its response answers 500 and leaves the     *)
(* store as it is.                                                          *)
C20_NullPoisons ==
    [][\A r \in Slots :
          (/\ req[r].pc \in {"delete", "delete_put"}
           /\ req'[r].pc = "done"
           /\ HasNull(Collection)) =>
              /\ req'[r].resp.status = 500
              /\ kv' = kv]_vars

(* C20 amended: an add without data, or with data null, whose calls return  *)
(* answers {success:true} and its put stores the collection it read with a  *)
(* null element appended; every delete whose read returns a collection      *)
(* holding a null element answers 500 'Error deleting website', for any id, *)
(* and calls put never.                                                     *)
C20_NullPoisonsRead ==
    \A r \in Slots :
        /\ (Done(r) /\ Is(r, "add") /\ NoFault(r)
              /\ Prop(req[r].data, "data") \in {Undefined, Null}) =>
                 /\ Succeeded(r)
                 /\ lastWriter = r => Collection = Old(r) \o <<Null>>
        /\ HitsNull(r) =>
              /\ Done(r)
              /\ req[r].resp = Response(500, <<"Error deleting website">>, corsHeaders)
              /\ req[r].writes = 0

\* an add without data stored null, and a delete of id b that read it failed
C20_Witness ==
    \E r1, r2 \in Slots :
        /\ Done(r1) /\ Is(r1, "add") /\ Succeeded(r1)
        /\ Prop(req[r1].data, "data") = Undefined
        /\ lastWriter = r1
        /\ HitsNull(r2)
        /\ Prop(req[r2].data, "id") = IdB
        /\ req[r2].resp.status = 500
        /\ Old(r2) = Collection
        /\ HasNull(Collection)

====
